---- MODULE Spec2Model ----
(***************************************************************************)
(* Proc_UIManager of AtmoScan (P_UIManager.cpp): the UI task's service()   *)
(* tick, the gesture interrupt handler onGesture(), the swipe computation  *)
(* and the gesture decode, as a state machine.                             *)
(*                                                                         *)
(* service() is split into steps (pc) at the points where the interrupt    *)
(* handler can run in between and where the Screen life cycle calls        *)
(* (deactivate, delete, new, activate) follow each other.                  *)
(*                                                                         *)
(* Time: millis() is not stored.  Each timestamp X of the code is kept as  *)
(* the elapsed time millis() - X in milliseconds, on a grid of TimeStep,   *)
(* and stops growing at the first grid point above the largest value the   *)
(* code compares it with: every comparison of the code keeps its result.   *)
(* A delay() shorter than TimeStep takes no grid time.                     *)
(*                                                                         *)
(* Build: ENABLE_SENSORS defined (the gesture initialisation is retried),  *)
(* KILL_INSTALLED not defined (the sibling tasks are disabled).            *)
(***************************************************************************)
EXTENDS Integers, Sequences, FiniteSets, TLC

(***************************************************************************)
(* Bounds of the model                                                     *)
(***************************************************************************)
TimeStep == 1000
MaxCalls == 2
MaxIrqs == 2

(***************************************************************************)
(* Values set outside P_UIManager.cpp (GlobalDefinitions.h, the screen     *)
(* registry, the gesture driver)                                           *)
(***************************************************************************)
VOLT_LOW == 1
VOLT_HIGH == 3
AVERAGING_WINDOW == 1
BACKLIGHT_TIMEOUT == 1000
ScreenCount == 5
SETUP_SCREEN == 0
LOWBATT_SCREEN == 99

GES_NONE == "GES_NONE"
GES_UP == "GES_UP"
GES_DOWN == "GES_DOWN"
GES_LEFT == "GES_LEFT"
GES_RIGHT == "GES_RIGHT"
GES_FORWARD == "GES_FORWARD"
GES_BACKWARD == "GES_BACKWARD"
GES_CLOCKWISE == "GES_CLOCKWISE"
GES_CNTRCLOCKWISE == "GES_CNTRCLOCKWISE"
GES_WAVE == "GES_WAVE"
\* a raw code of the sensor outside the gesture set
GES_UNLISTED == "GES_UNLISTED"

RawCodes ==
  {GES_NONE, GES_UP, GES_DOWN, GES_LEFT, GES_RIGHT, GES_FORWARD, GES_BACKWARD,
   GES_CLOCKWISE, GES_CNTRCLOCKWISE, GES_WAVE, GES_UNLISTED}

\* the cell voltages the battery monitor returns, in the unit of VOLT_LOW
VCellSamples == {0, 1, 2, 4}

\* config.startScreen: a screen the factory can create
StartScreens == 0 .. (ScreenCount - 1)

\* the sibling tasks service() disables on low battery
SiblingTasks ==
  {"ComboTemperatureHumiditySensor", "ComboPressureHumiditySensor",
   "ParticleSensor", "CO2Sensor", "VOCSensor", "MultiGasSensor", "MQTTUpdate",
   "GeigerSensor", "GeoLocation"}

VARIABLES
  pc,                     \* position of the UI task: "idle" between two ticks
  eventFlag,              \* the latch the interrupt handler sets
  forceRequested,         \* this->force() asked the scheduler for a dispatch
  sinceEventTime,         \* millis() - eventTime
  sinceEventProcessing,   \* millis() - lastEventProcessing
  sinceBatteryAveraging,  \* millis() - lastBatteryAveraging
  avgVolt,                \* the samples in the voltage averaging window
  avgSOC,                 \* the samples in the state-of-charge averaging window
  isDisplayOn,
  currentScreenID,
  currentScreenRotation,
  liveScreens,            \* Screen objects constructed and not deleted
  activeScreens,          \* Screen objects activated and not deactivated
  eventID,                \* service()'s local eventID (GES_NONE outside its block)
  disableCalls,           \* disable() calls on each sibling task since boot
  lowbattTransitions,     \* forced LOWBATT transitions since boot
  irqs,                   \* interrupts raised since the latch was last cleared
  inDebounce,             \* the latched interrupt came less than 1000 ms after
                          \* the interrupt of the last honored event
  lastHonored,            \* the last latched interrupt was honored
  tickLog,                \* what this tick has done so far
  period,                 \* the screen id whose refresh period setPeriod() got
  sinceLastUpdate,        \* millis() - currentScreen->lastUpdate
  initSuccess,            \* the last call of initGesture() returned true
  attempt                 \* initGesture()'s loop counter i (0 outside the call)

vars ==
  <<pc, eventFlag, forceRequested, sinceEventTime, sinceEventProcessing,
    sinceBatteryAveraging, avgVolt, avgSOC, isDisplayOn, currentScreenID,
    currentScreenRotation, liveScreens, activeScreens, eventID, disableCalls,
    lowbattTransitions, irqs, inDebounce,
    lastHonored, tickLog, period, sinceLastUpdate, initSuccess, attempt>>

nav == <<currentScreenID, currentScreenRotation, liveScreens, activeScreens>>

gestureInit == <<initSuccess, attempt>>

(***************************************************************************)
(* Time                                                                    *)
(***************************************************************************)
\* the first grid point above ms
GridAbove(ms) == ((ms \div TimeStep) + 1) * TimeStep

\* the grid time a delay(ms) takes
Delay(ms) == (ms \div TimeStep) * TimeStep

\* an elapsed time d later, kept up to cap
Later(elapsed, d, cap) == IF elapsed + d > cap THEN cap ELSE elapsed + d

EventTimeCap == GridAbove(2 * BACKLIGHT_TIMEOUT)
EventProcessingCap == GridAbove(1000)
BatteryAveragingCap == GridAbove(10000)

\* the attempts one call of initGesture() makes
InitAttempts == 3

\* the failed attempts of a call of initGesture(): the last one is the third
InitFailures == 0..InitAttempts

\* the first grid point at or above ms
GridAtLeast(ms) == ((ms + TimeStep - 1) \div TimeStep) * TimeStep

\* currentScreen->getRefreshPeriod(), in ms
RefreshPeriod(id) == 1050

\* currentScreen->getRefreshWithScreenOff()
RefreshWithScreenOff(id) == id = 1

\* currentScreen->isFullScreen()
IsFullScreen(id) == id \in {SETUP_SCREEN, LOWBATT_SCREEN}

\* millis() - lastUpdate is compared with getRefreshPeriod() - 50
LastUpdateCap == GridAtLeast(RefreshPeriod(0) - 50)

\* millis() - lastUpdate of a screen that was just constructed
NewScreenAges == {0, LastUpdateCap}

\* millis() moves on by d
Elapse(d) ==
  /\ sinceEventTime' = Later(sinceEventTime, d, EventTimeCap)
  /\ sinceEventProcessing' = Later(sinceEventProcessing, d, EventProcessingCap)
  /\ sinceBatteryAveraging' = Later(sinceBatteryAveraging, d, BatteryAveragingCap)
  /\ sinceLastUpdate' = Later(sinceLastUpdate, d, LastUpdateCap)

(***************************************************************************)
(* The averaging filter (window of the last AVERAGING_WINDOW samples)      *)
(***************************************************************************)
RECURSIVE SumSeq(_)
SumSeq(s) == IF s = <<>> THEN 0 ELSE Head(s) + SumSeq(Tail(s))

push(window, sample) ==
  IF Len(window) < AVERAGING_WINDOW
    THEN Append(window, sample)
    ELSE Append(Tail(window), sample)

\* getVolt() <= VOLT_LOW, with mean() = SumSeq / Len
VoltLow(window) == SumSeq(window) <= VOLT_LOW * Len(window)

\* faulty variant: recharged as soon as the voltage is above VOLT_LOW
VoltRecharged_AboveLow(window) == ~VoltLow(window)

\* getVolt() > (VOLT_HIGH + VOLT_LOW) / 2
VoltRecharged(window) == 2 * SumSeq(window) > (VOLT_HIGH + VOLT_LOW) * Len(window)

\* 100 / (VOLT_HIGH - VOLT_LOW) * (getVolt() - VOLT_LOW); the samples are chosen
\* so that the quotient is exact
StateOfCharge(window) ==
  (100 * (SumSeq(window) - VOLT_LOW * Len(window)))
    \div ((VOLT_HIGH - VOLT_LOW) * Len(window))

\* SoC > 100 ? 100 : SoC
ClampSoC(SoC) == IF SoC > 100 THEN 100 ELSE SoC

\* getSoC() > 95; the mean of an empty window is not above 95
HighCharge(window) == Len(window) > 0 /\ SumSeq(window) > 95 * Len(window)

(***************************************************************************)
(* Pure functions                                                          *)
(***************************************************************************)
\* faulty variant: > for >= in the wrap of a right swipe
handleSwipe_LateWrap(evt, curScrn) ==
  IF evt = GES_RIGHT
    THEN (IF curScrn + 1 > ScreenCount THEN 1 ELSE curScrn + 1)
    ELSE IF evt = GES_LEFT
      THEN (IF curScrn - 1 < 1 THEN ScreenCount - 1 ELSE curScrn - 1)
      ELSE curScrn

\* faulty variant: the left wrap lets the setup screen into the cycle
handleSwipe_IntoSetup(evt, curScrn) ==
  IF evt = GES_RIGHT
    THEN (IF curScrn + 1 >= ScreenCount THEN 1 ELSE curScrn + 1)
    ELSE IF evt = GES_LEFT
      THEN (IF curScrn - 1 < 0 THEN ScreenCount - 1 ELSE curScrn - 1)
      ELSE curScrn

handleSwipe(evt, curScrn) ==
  IF evt = GES_RIGHT
    THEN (IF curScrn + 1 >= ScreenCount THEN 1 ELSE curScrn + 1)
    ELSE IF evt = GES_LEFT
      THEN (IF curScrn - 1 < 1 THEN ScreenCount - 1 ELSE curScrn - 1)
      ELSE curScrn

\* faulty variant: the remap swaps up with left and down with right
getUserEvent_Swap(gesture, rotation) ==
  CASE gesture = GES_UP -> (IF rotation = 0 THEN GES_LEFT ELSE GES_RIGHT)
    [] gesture = GES_DOWN -> (IF rotation = 0 THEN GES_RIGHT ELSE GES_LEFT)
    [] gesture = GES_LEFT -> (IF rotation = 0 THEN GES_UP ELSE GES_DOWN)
    [] gesture = GES_RIGHT -> (IF rotation = 0 THEN GES_DOWN ELSE GES_UP)
    [] OTHER -> gesture

\* faulty variant: the remap of rotation 0 is used at every rotation
getUserEvent_NoRotation(gesture, rotation) ==
  CASE gesture = GES_UP -> GES_LEFT
    [] gesture = GES_DOWN -> GES_RIGHT
    [] gesture = GES_LEFT -> GES_DOWN
    [] gesture = GES_RIGHT -> GES_UP
    [] OTHER -> gesture

getUserEvent(gesture, rotation) ==
  CASE gesture = GES_UP -> (IF rotation = 0 THEN GES_LEFT ELSE GES_RIGHT)
    [] gesture = GES_DOWN -> (IF rotation = 0 THEN GES_RIGHT ELSE GES_LEFT)
    [] gesture = GES_LEFT -> (IF rotation = 0 THEN GES_DOWN ELSE GES_UP)
    [] gesture = GES_RIGHT -> (IF rotation = 0 THEN GES_UP ELSE GES_DOWN)
    [] OTHER -> gesture

(***************************************************************************)
(* setup(): the state in which the first tick starts                       *)
(***************************************************************************)
Init ==
  /\ pc = "idle"
  /\ eventFlag = FALSE
  /\ forceRequested = FALSE
  /\ sinceEventTime = 0
  /\ sinceEventProcessing = EventProcessingCap
  /\ attempt = 0
  /\ \E failures \in InitFailures :
       /\ initSuccess = (failures < InitAttempts)
       /\ sinceBatteryAveraging = Delay(1000) + failures * Delay(2000)
  /\ \E v \in VCellSamples : avgVolt = <<v>>
  /\ avgSOC = <<>>
  /\ isDisplayOn \in BOOLEAN
  /\ currentScreenID \in StartScreens
  /\ currentScreenRotation = 0
  /\ liveScreens = 1
  /\ activeScreens = 1
  /\ eventID = GES_NONE
  /\ disableCalls = [t \in SiblingTasks |-> 0]
  /\ lowbattTransitions = 0
  /\ irqs = 0
  /\ inDebounce = FALSE
  /\ lastHonored = FALSE
  /\ tickLog = {}
  /\ period = currentScreenID
  /\ sinceLastUpdate \in NewScreenAges

(***************************************************************************)
(* The interrupt handler                                                   *)
(***************************************************************************)
\* faulty variant: the latch is set and stamped whether or not it is already set
onGesture_NoGuard ==
  /\ pc # "halted"
  /\ irqs' = IF irqs < MaxIrqs THEN irqs + 1 ELSE irqs
  /\ eventFlag' = TRUE
  /\ forceRequested' = TRUE
  /\ sinceEventTime' = 0
  /\ inDebounce' = (lastHonored /\ sinceEventTime < 1000)
  /\ UNCHANGED <<pc, sinceEventProcessing, sinceBatteryAveraging, sinceLastUpdate, avgVolt,
                 avgSOC, isDisplayOn, nav, eventID, disableCalls, gestureInit, period,
                 lowbattTransitions, lastHonored, tickLog>>

onGesture ==
  /\ pc # "halted"
  /\ irqs' = IF irqs < MaxIrqs THEN irqs + 1 ELSE irqs
  /\ IF ~eventFlag
       THEN /\ eventFlag' = TRUE
            /\ forceRequested' = TRUE
            /\ sinceEventTime' = 0
            /\ inDebounce' = (lastHonored /\ sinceEventTime < 1000)
       ELSE UNCHANGED <<eventFlag, forceRequested, sinceEventTime, inDebounce>>
  /\ UNCHANGED <<pc, sinceEventProcessing, sinceBatteryAveraging, sinceLastUpdate, avgVolt,
                 avgSOC, isDisplayOn, nav, eventID, disableCalls, gestureInit, period, lowbattTransitions, lastHonored, tickLog>>

(***************************************************************************)
(* Time passes between two ticks                                           *)
(***************************************************************************)
TimePasses ==
  /\ pc = "idle"
  /\ Elapse(TimeStep)
  /\ UNCHANGED <<pc, eventFlag, forceRequested, avgVolt, avgSOC, isDisplayOn,
                 nav, eventID, disableCalls, gestureInit, period,
                 lowbattTransitions, irqs, inDebounce, lastHonored, tickLog>>

(***************************************************************************)
(* service()                                                               *)
(***************************************************************************)
\* faulty variant: a failed initialisation is not tried again
NeedsInit_Never == FALSE

\* if (!initSuccess), compiled in by ENABLE_SENSORS
NeedsInit == ~initSuccess

\* entry with the gesture sensor not initialised: initGesture() is called
InitRetry ==
  /\ pc = "idle"
  /\ NeedsInit
  /\ pc' = "init"
  /\ forceRequested' = FALSE
  /\ attempt' = 0
  /\ UNCHANGED <<eventFlag, sinceEventTime, sinceEventProcessing,
                 sinceBatteryAveraging, sinceLastUpdate, avgVolt, avgSOC,
                 isDisplayOn, nav, eventID, disableCalls, initSuccess, period,
                 lowbattTransitions, irqs, inDebounce, lastHonored, tickLog>>

\* one turn of initGesture()'s loop: gestureSensor.begin() returns error
InitAttempt ==
  /\ pc = "init"
  /\ attempt < InitAttempts
  /\ \E error \in BOOLEAN :
       IF ~error
         THEN /\ pc' = "averaging"
              /\ initSuccess' = TRUE
              /\ attempt' = 0
              /\ UNCHANGED <<sinceEventTime, sinceEventProcessing,
                             sinceBatteryAveraging, sinceLastUpdate>>
         ELSE /\ pc' = "init"
              /\ attempt' = attempt + 1
              /\ Elapse(Delay(2000))
              /\ UNCHANGED initSuccess
  /\ UNCHANGED <<eventFlag, forceRequested, avgVolt, avgSOC, isDisplayOn, nav,
                 eventID, disableCalls, period, lowbattTransitions, irqs,
                 inDebounce, lastHonored, tickLog>>

\* initGesture()'s loop is over: return false
InitGiveUp ==
  /\ pc = "init"
  /\ attempt >= InitAttempts
  /\ pc' = "averaging"
  /\ initSuccess' = FALSE
  /\ attempt' = 0
  /\ UNCHANGED <<eventFlag, forceRequested, sinceEventTime,
                 sinceEventProcessing, sinceBatteryAveraging, sinceLastUpdate,
                 avgVolt, avgSOC, isDisplayOn, nav, eventID, disableCalls,
                 period, lowbattTransitions, irqs, inDebounce, lastHonored,
                 tickLog>>

\* thisTime = millis() and battery averaging
ServiceStart ==
  /\ (pc = "idle" /\ ~NeedsInit) \/ pc = "averaging"
  /\ pc' = "power"
  /\ forceRequested' = (pc # "idle" /\ forceRequested)
  /\ IF sinceBatteryAveraging > 10000
       THEN /\ sinceBatteryAveraging' = 0
            /\ \E v \in VCellSamples :
                 /\ avgVolt' = push(avgVolt, v)
                 /\ avgSOC' = push(avgSOC, ClampSoC(StateOfCharge(avgVolt')))
       ELSE UNCHANGED <<sinceBatteryAveraging, avgVolt, avgSOC>>
  /\ UNCHANGED <<eventFlag, sinceEventTime, sinceEventProcessing, isDisplayOn,
                 nav, eventID, disableCalls, gestureInit, period, sinceLastUpdate,
                 lowbattTransitions, irqs, inDebounce, lastHonored, tickLog>>

\* faulty variant: the test for the lowbatt screen is left out
AlreadyLowbatt_Forgotten == FALSE

\* was already at the lowbatt screen?
AlreadyLowbatt == currentScreenID = LOWBATT_SCREEN

\* the low battery and the recharge conditions
PowerCheck ==
  /\ pc = "power"
  /\ pc' = IF VoltLow(avgVolt)
             THEN (IF ~AlreadyLowbatt THEN "lowbatt_deactivate" ELSE "event")
             ELSE IF VoltRecharged(avgVolt) /\ currentScreenID = LOWBATT_SCREEN
               THEN "restart_delay" ELSE "event"
  /\ UNCHANGED <<eventFlag, forceRequested, sinceEventTime,
                 sinceEventProcessing, sinceBatteryAveraging, sinceLastUpdate,
                 avgVolt, avgSOC,
                 isDisplayOn, nav, eventID, disableCalls, gestureInit, period, lowbattTransitions, irqs, inDebounce,
                 lastHonored, tickLog>>

\* service()'s local eventID after a step that goes to next: it ends with the
\* event block
LocalsAfter(next) ==
  IF next = "render" THEN eventID' = GES_NONE ELSE UNCHANGED eventID

\* the variables a Screen life cycle step leaves alone
ScreenStepFrame ==
  UNCHANGED <<eventFlag, forceRequested, sinceEventTime, sinceEventProcessing,
              sinceBatteryAveraging, avgVolt, avgSOC, isDisplayOn,
              currentScreenRotation, disableCalls, gestureInit, irqs, inDebounce,
              lastHonored>>

\* currentScreen->deactivate()
DeactivateScreen(at, next) ==
  /\ pc = at
  /\ pc' = next
  /\ activeScreens' = activeScreens - 1
  /\ UNCHANGED <<currentScreenID, liveScreens, lowbattTransitions, eventID,
                 tickLog, period, sinceLastUpdate>>
  /\ ScreenStepFrame

\* faulty variant: the outgoing screen is not deleted
DeleteScreen_Leak(at, next) ==
  /\ pc = at
  /\ pc' = next
  /\ UNCHANGED <<currentScreenID, liveScreens, activeScreens,
                 lowbattTransitions, eventID, tickLog, period,
                 sinceLastUpdate>>
  /\ ScreenStepFrame

\* delete currentScreen
DeleteScreen(at, next) ==
  /\ pc = at
  /\ pc' = next
  /\ liveScreens' = liveScreens - 1
  /\ UNCHANGED <<currentScreenID, activeScreens, lowbattTransitions, eventID,
                 tickLog, period, sinceLastUpdate>>
  /\ ScreenStepFrame

\* currentScreen = new ..., with the screen id the code has set by then
CreateScreen(at, next, id) ==
  /\ pc = at
  /\ pc' = next
  /\ currentScreenID' = id
  /\ liveScreens' = liveScreens + 1
  /\ lowbattTransitions' =
       IF id = LOWBATT_SCREEN /\ lowbattTransitions < MaxCalls
         THEN lowbattTransitions + 1 ELSE lowbattTransitions
  /\ tickLog' = IF id = LOWBATT_SCREEN THEN tickLog \cup {"lowbatt"} ELSE tickLog
  /\ sinceLastUpdate' \in NewScreenAges
  /\ UNCHANGED <<activeScreens, eventID, period>>
  /\ ScreenStepFrame

\* faulty variant: the period of the screen before stays in force
ActivateScreen_StalePeriod(at, next, id) ==
  /\ pc = at
  /\ pc' = next
  /\ activeScreens' = activeScreens + 1
  /\ currentScreenID' = id
  /\ LocalsAfter(next)
  /\ UNCHANGED <<liveScreens, lowbattTransitions, tickLog, period,
                 sinceLastUpdate>>
  /\ ScreenStepFrame

\* currentScreen->activate(), drawBar, setPeriod(getRefreshPeriod()) of the new
\* screen, and the screen id after them
ActivateScreen(at, next, id) ==
  /\ pc = at
  /\ pc' = next
  /\ activeScreens' = activeScreens + 1
  /\ currentScreenID' = id
  /\ period' = id
  /\ LocalsAfter(next)
  /\ UNCHANGED <<liveScreens, lowbattTransitions, tickLog, sinceLastUpdate>>
  /\ ScreenStepFrame

\* setRotation, fillScreen, currentScreen->activate() of the same screen and
\* currentScreen->lastUpdate = 0; no setPeriod
ReactivateScreen(at, next) ==
  /\ pc = at
  /\ pc' = next
  /\ activeScreens' = activeScreens + 1
  /\ tickLog' = tickLog \cup {"lastUpdateReset"}
  /\ sinceLastUpdate' = LastUpdateCap
  /\ LocalsAfter(next)
  /\ UNCHANGED <<currentScreenID, liveScreens, lowbattTransitions, period>>
  /\ ScreenStepFrame

LowbattDeactivate == DeactivateScreen("lowbatt_deactivate", "lowbatt_delete")
LowbattDelete == DeleteScreen("lowbatt_delete", "lowbatt_create")
LowbattCreate == CreateScreen("lowbatt_create", "lowbatt_activate", LOWBATT_SCREEN)
LowbattActivate ==
  ActivateScreen("lowbatt_activate", "lowbatt_disable", currentScreenID)

\* the nine disable() calls
DisableSiblings ==
  /\ pc = "lowbatt_disable"
  /\ pc' = "event"
  /\ disableCalls' =
       [t \in SiblingTasks |->
          IF disableCalls[t] < MaxCalls THEN disableCalls[t] + 1
                                        ELSE disableCalls[t]]
  /\ UNCHANGED <<eventFlag, forceRequested, sinceEventTime,
                 sinceEventProcessing, sinceBatteryAveraging, sinceLastUpdate,
                 avgVolt, avgSOC,
                 isDisplayOn, nav, eventID, gestureInit, lowbattTransitions,
                 irqs, inDebounce, lastHonored, tickLog, period>>

\* delay(1000) before the restart
RestartDelay ==
  /\ pc = "restart_delay"
  /\ pc' = "restart"
  /\ Elapse(Delay(1000))
  /\ tickLog' = tickLog \cup {"delay1000"}
  /\ UNCHANGED <<eventFlag, forceRequested, avgVolt, avgSOC, isDisplayOn, nav,
                 eventID, disableCalls, gestureInit, period, lowbattTransitions, irqs,
                 inDebounce, lastHonored>>

\* ESP.restart(): the tick does not go on
EspRestart ==
  /\ pc = "restart"
  /\ pc' = "halted"
  /\ UNCHANGED <<eventFlag, forceRequested, sinceEventTime,
                 sinceEventProcessing, sinceBatteryAveraging, sinceLastUpdate,
                 avgVolt, avgSOC,
                 isDisplayOn, nav, eventID, disableCalls, gestureInit, period,
                 lowbattTransitions, irqs, inDebounce, lastHonored, tickLog>>

\* the device boots and runs setup() again
Boot ==
  /\ pc = "halted"
  /\ pc' = "idle"
  /\ eventFlag' = FALSE
  /\ forceRequested' = FALSE
  /\ sinceEventTime' = 0
  /\ sinceEventProcessing' = EventProcessingCap
  /\ attempt' = 0
  /\ \E failures \in InitFailures :
       /\ initSuccess' = (failures < InitAttempts)
       /\ sinceBatteryAveraging' = Delay(1000) + failures * Delay(2000)
  /\ \E v \in VCellSamples : avgVolt' = <<v>>
  /\ avgSOC' = <<>>
  /\ isDisplayOn' \in BOOLEAN
  /\ currentScreenID' \in StartScreens
  /\ currentScreenRotation' = 0
  /\ liveScreens' = 1
  /\ activeScreens' = 1
  /\ eventID' = GES_NONE
  /\ disableCalls' = [t \in SiblingTasks |-> 0]
  /\ lowbattTransitions' = 0
  /\ irqs' = 0
  /\ inDebounce' = FALSE
  /\ lastHonored' = FALSE
  /\ tickLog' = {}
  /\ period' = currentScreenID'
  /\ sinceLastUpdate' \in NewScreenAges

\* faulty variant: the threshold does not depend on the charge
IdleThreshold_NoDoubling == BACKLIGHT_TIMEOUT

\* BACKLIGHT_TIMEOUT * (1 + (getSoC() > 95))
IdleThreshold == BACKLIGHT_TIMEOUT * (1 + (IF HighCharge(avgSOC) THEN 1 ELSE 0))

\* the event is honored: the latch is cleared and the gesture is read
HonorEvent ==
  /\ sinceEventProcessing' = 0
  /\ eventFlag' = FALSE
  /\ irqs' = 0
  /\ lastHonored' = TRUE
  /\ \E raw \in RawCodes : eventID' = getUserEvent(raw, currentScreenRotation)
  /\ pc' = "dispatch"
  /\ UNCHANGED <<isDisplayOn, tickLog>>

\* the event is not honored: less than a second since the last one
SuppressEvent ==
  /\ pc' = "render"
  /\ UNCHANGED <<sinceEventProcessing, eventFlag, irqs, lastHonored, eventID,
                 isDisplayOn, tickLog>>

\* service with no event: the backlight timeout
BacklightTimeout ==
  /\ isDisplayOn' =
       IF isDisplayOn /\ sinceEventTime > IdleThreshold THEN FALSE
                                                        ELSE isDisplayOn
  /\ tickLog' =
       IF isDisplayOn /\ sinceEventTime > IdleThreshold
         THEN tickLog \cup {"timeout"} ELSE tickLog
  /\ pc' = "render"
  /\ UNCHANGED <<sinceEventProcessing, eventFlag, irqs, lastHonored, eventID>>

\* faulty variant: no event passes the filter
DebounceOver_Never == FALSE

\* filter out spurious events - only one event per second
DebounceOver == sinceEventProcessing > 1000

\* is there an event to be handled
EventCheck ==
  /\ pc = "event"
  /\ IF eventFlag
       THEN (IF DebounceOver THEN HonorEvent ELSE SuppressEvent)
       ELSE BacklightTimeout
  /\ UNCHANGED <<forceRequested, sinceEventTime, sinceBatteryAveraging, sinceLastUpdate,
                 avgVolt, avgSOC, nav, disableCalls, gestureInit, period,
                 lowbattTransitions, inDebounce>>

\* faulty variant: the event is processed whether the display is on or off
DisplayWasOff_Forgotten == FALSE

\* if screen was off, just turn it on and no further actions
DisplayWasOff == ~isDisplayOn

\* faulty variant: events are processed in low batt mode too
InLowbattMode_Forgotten == FALSE

\* in low batt mode all events are ignored
InLowbattMode == currentScreenID = LOWBATT_SCREEN

\* faulty variant: the screen's answer is ignored
AfterUserEvent_Ignored(claimed) == "transition"

\* where service() goes on after currentScreen->onUserEvent(eventID)
AfterUserEvent(claimed) == IF claimed THEN "render" ELSE "transition"

\* the chain of decisions on the event that was read
Dispatch ==
  /\ pc = "dispatch"
  /\ IF DisplayWasOff
       THEN /\ isDisplayOn' = TRUE
            /\ pc' = "render"
            /\ LocalsAfter("render")
            /\ tickLog' = tickLog \cup {"wake"}
       ELSE IF InLowbattMode
         THEN /\ pc' = "render"
              /\ LocalsAfter("render")
              /\ UNCHANGED <<isDisplayOn, tickLog>>
         ELSE IF eventID = GES_FORWARD
           THEN /\ isDisplayOn' = FALSE
                /\ pc' = "forward_delay"
                /\ UNCHANGED <<eventID, tickLog>>
           ELSE IF eventID # GES_NONE
             THEN /\ \E claimed \in BOOLEAN :
                       /\ pc' = AfterUserEvent(claimed)
                       /\ LocalsAfter(pc')
                       /\ tickLog' =
                            tickLog \cup
                              (IF claimed THEN {"onUserEvent", "claimed"}
                                          ELSE {"onUserEvent"})
                  /\ UNCHANGED isDisplayOn
             ELSE /\ pc' = "render"
                  /\ LocalsAfter("render")
                  /\ UNCHANGED <<isDisplayOn, tickLog>>
  /\ UNCHANGED <<eventFlag, forceRequested, sinceEventTime,
                 sinceEventProcessing, sinceBatteryAveraging, sinceLastUpdate,
                 avgVolt, avgSOC,
                 nav, disableCalls, gestureInit, period, lowbattTransitions, irqs, inDebounce,
                 lastHonored>>

\* delay(500) after the display went off
ForwardDelay ==
  /\ pc = "forward_delay"
  /\ pc' = "forward_check"
  /\ Elapse(Delay(500))
  /\ UNCHANGED <<eventFlag, forceRequested, avgVolt, avgSOC, isDisplayOn, nav,
                 eventID, disableCalls, gestureInit, period, lowbattTransitions, irqs,
                 inDebounce, lastHonored, tickLog>>

\* faulty variant: the event raised during the delay is kept
SpuriousCheck_Kept ==
  /\ pc = "forward_check"
  /\ pc' = "render"
  /\ LocalsAfter("render")
  /\ UNCHANGED <<eventFlag, irqs, lastHonored, forceRequested, sinceEventTime,
                 sinceEventProcessing, sinceBatteryAveraging, sinceLastUpdate,
                 avgVolt, avgSOC,
                 isDisplayOn, nav, disableCalls, gestureInit, period, lowbattTransitions,
                 inDebounce, tickLog>>

\* clear a spurious event: cancelGesture() and the latch reset
SpuriousCheck ==
  /\ pc = "forward_check"
  /\ pc' = "render"
  /\ LocalsAfter("render")
  /\ IF eventFlag
       THEN /\ eventFlag' = FALSE
            /\ irqs' = 0
            /\ lastHonored' = FALSE
            /\ tickLog' = tickLog \cup {"spurious"}
       ELSE UNCHANGED <<eventFlag, irqs, lastHonored, tickLog>>
  /\ UNCHANGED <<forceRequested, sinceEventTime, sinceEventProcessing,
                 sinceBatteryAveraging, sinceLastUpdate, avgVolt, avgSOC, isDisplayOn, nav,
                 disableCalls, gestureInit, period, lowbattTransitions, inDebounce>>

\* faulty variant: the rotation goes to 2 and stays there
ToggleRotation_Stuck(rotation) == 2

\* currentScreenRotation == 0 ? 2 : 0
ToggleRotation(rotation) == IF rotation = 0 THEN 2 ELSE 0

\* the event was not cancelled by the screen: setup, rotation or swipe
Transition ==
  /\ pc = "transition"
  /\ IF eventID = GES_CNTRCLOCKWISE
       THEN /\ pc' = "setup_deactivate"
            /\ UNCHANGED <<currentScreenRotation, eventID>>
       ELSE IF eventID = GES_CLOCKWISE
         THEN /\ currentScreenRotation' = ToggleRotation(currentScreenRotation)
              /\ pc' = "rotate_deactivate"
              /\ UNCHANGED eventID
         ELSE IF handleSwipe(eventID, currentScreenID) # currentScreenID
           THEN /\ pc' = "swipe_deactivate"
                /\ UNCHANGED <<currentScreenRotation, eventID>>
           ELSE /\ pc' = "render"
                /\ LocalsAfter("render")
                /\ UNCHANGED currentScreenRotation
  /\ UNCHANGED <<eventFlag, forceRequested, sinceEventTime,
                 sinceEventProcessing, sinceBatteryAveraging, sinceLastUpdate,
                 avgVolt, avgSOC,
                 isDisplayOn, currentScreenID, liveScreens, activeScreens,
                 disableCalls, gestureInit, period, lowbattTransitions, irqs, inDebounce,
                 lastHonored, tickLog>>

SetupDeactivate == DeactivateScreen("setup_deactivate", "setup_delete")
SetupDelete == DeleteScreen("setup_delete", "setup_create")
SetupCreate == CreateScreen("setup_create", "setup_activate", SETUP_SCREEN)
SetupActivate == ActivateScreen("setup_activate", "render", currentScreenID)

RotateDeactivate == DeactivateScreen("rotate_deactivate", "rotate_activate")
RotateActivate == ReactivateScreen("rotate_activate", "render")

\* newScreenID = handleSwipe(eventID, currentScreenID) becomes the current
\* screen id after the new screen is activated
SwipeDeactivate == DeactivateScreen("swipe_deactivate", "swipe_delete")
SwipeDelete == DeleteScreen("swipe_delete", "swipe_create")
SwipeCreate == CreateScreen("swipe_create", "swipe_activate", currentScreenID)
SwipeActivate ==
  ActivateScreen("swipe_activate", "render",
                 handleSwipe(eventID, currentScreenID))

\* faulty variant: the screen is refreshed whether the display is on or off
ScreenVisible_Always == TRUE

\* backlight is on, or the current screen is refreshed anyway
ScreenVisible == isDisplayOn \/ RefreshWithScreenOff(currentScreenID)

\* the screen needs a refresh at this time
RefreshDue == sinceLastUpdate >= RefreshPeriod(currentScreenID) - 50

\* the refresh of the current screen: drawBar(), lastUpdate = millis(),
\* update()
Render ==
  /\ pc = "render"
  /\ pc' = "end"
  /\ IF ScreenVisible /\ RefreshDue
       THEN /\ sinceLastUpdate' = 0
            /\ tickLog' =
                 tickLog \cup {"update"} \cup
                   (IF ~IsFullScreen(currentScreenID) THEN {"drawBar"} ELSE {})
       ELSE UNCHANGED <<sinceLastUpdate, tickLog>>
  /\ UNCHANGED <<eventFlag, forceRequested, sinceEventTime,
                 sinceEventProcessing, sinceBatteryAveraging, avgVolt, avgSOC,
                 isDisplayOn, nav, eventID, disableCalls, gestureInit, period,
                 lowbattTransitions, irqs, inDebounce, lastHonored>>

\* service() returns
ServiceEnd ==
  /\ pc = "end"
  /\ pc' = "idle"
  /\ tickLog' = {}
  /\ UNCHANGED <<eventFlag, forceRequested, sinceEventTime,
                 sinceEventProcessing, sinceBatteryAveraging, sinceLastUpdate,
                 avgVolt, avgSOC,
                 isDisplayOn, nav, eventID, disableCalls, gestureInit, period,
                 lowbattTransitions, irqs, inDebounce, lastHonored>>

Next ==
  \/ onGesture
  \/ TimePasses
  \/ InitRetry
  \/ InitAttempt
  \/ InitGiveUp
  \/ ServiceStart
  \/ PowerCheck
  \/ LowbattDeactivate
  \/ LowbattDelete
  \/ LowbattCreate
  \/ LowbattActivate
  \/ DisableSiblings
  \/ RestartDelay
  \/ EspRestart
  \/ Boot
  \/ EventCheck
  \/ Dispatch
  \/ ForwardDelay
  \/ SpuriousCheck
  \/ Transition
  \/ SetupDeactivate
  \/ SetupDelete
  \/ SetupCreate
  \/ SetupActivate
  \/ RotateDeactivate
  \/ RotateActivate
  \/ SwipeDeactivate
  \/ SwipeDelete
  \/ SwipeCreate
  \/ SwipeActivate
  \/ Render
  \/ ServiceEnd

Spec == Init /\ [][Next]_vars

\* a step of the UI task, of its setup() included
TaskStep ==
  \/ InitRetry
  \/ InitAttempt
  \/ InitGiveUp
  \/ ServiceStart
  \/ PowerCheck
  \/ LowbattDeactivate
  \/ LowbattDelete
  \/ LowbattCreate
  \/ LowbattActivate
  \/ DisableSiblings
  \/ RestartDelay
  \/ EspRestart
  \/ Boot
  \/ EventCheck
  \/ Dispatch
  \/ ForwardDelay
  \/ SpuriousCheck
  \/ Transition
  \/ SetupDeactivate
  \/ SetupDelete
  \/ SetupCreate
  \/ SetupActivate
  \/ RotateDeactivate
  \/ RotateActivate
  \/ SwipeDeactivate
  \/ SwipeDelete
  \/ SwipeCreate
  \/ SwipeActivate
  \/ Render
  \/ ServiceEnd

\* the scheduler keeps dispatching the UI task, a started service() runs to
\* its end, and time keeps advancing between ticks
FairSpec == Spec /\ WF_vars(TaskStep) /\ SF_vars(TimePasses)

(***************************************************************************)
(* Properties                                                              *)
(***************************************************************************)
\* the positions of service() after the power check, the restart aside
AfterPowerCheck ==
  {"event", "dispatch", "forward_delay", "forward_check", "transition",
   "setup_deactivate", "setup_delete", "setup_create", "setup_activate",
   "rotate_deactivate", "rotate_activate", "swipe_deactivate", "swipe_delete",
   "swipe_create", "swipe_activate", "render", "end"}

\* the averaged voltage is at most VOLT_LOW
MeanAtMostLow == SumSeq(avgVolt) <= VOLT_LOW * Len(avgVolt)

\* the averaged voltage is above the midpoint of VOLT_LOW and VOLT_HIGH
MeanAboveMidpoint == 2 * SumSeq(avgVolt) > (VOLT_LOW + VOLT_HIGH) * Len(avgVolt)

\* C1: between two boots the forced LOWBATT transition is made at most once
\* and disable() is called at most once on each of the nine sibling tasks; a
\* tick whose power check sees an averaged voltage <= VOLT_LOW goes on in
\* LOWBATT with the transition made once and every sibling disabled once, be
\* it the first such tick or a later one; the transition starts only on low
\* voltage, and between two ticks the calls on each sibling are as many as
\* the transitions.
C1_LowbattOnce ==
  /\ lowbattTransitions <= 1
  /\ \A t \in SiblingTasks : disableCalls[t] <= 1
  /\ (pc \in AfterPowerCheck /\ MeanAtMostLow) =>
       /\ currentScreenID = LOWBATT_SCREEN
       /\ lowbattTransitions = 1
       /\ \A t \in SiblingTasks : disableCalls[t] = 1
  /\ (pc = "lowbatt_deactivate") => (MeanAtMostLow /\ lowbattTransitions = 0)
  /\ (pc = "idle") => \A t \in SiblingTasks : disableCalls[t] = lowbattTransitions
  /\ (lowbattTransitions = 1) => (currentScreenID = LOWBATT_SCREEN)

\* C1 witness: a later tick with low voltage (no averaging in this tick, an
\* event honored by an earlier tick at this time) has passed the power check
\* with the one transition and the nine calls made
C1_Witness ==
  /\ pc = "event"
  /\ MeanAtMostLow
  /\ sinceBatteryAveraging > 0
  /\ sinceEventProcessing = 0
  /\ lowbattTransitions = 1
  /\ \A t \in SiblingTasks : disableCalls[t] = 1

\* C2: once the LOWBATT screen is activated, no step before the restart
\* changes the screen id, the screen instance (none is deleted, created,
\* deactivated or activated) or the rotation, whatever event is processed.
C2_LowbattHalts ==
  [][(currentScreenID = LOWBATT_SCREEN /\ pc \notin {"lowbatt_activate", "halted"})
       => UNCHANGED nav]_vars

\* C2 witness: the tick that forced LOWBATT has honored a counter-clockwise
\* event, which was pending, with the display on
C2_Witness ==
  /\ pc = "dispatch"
  /\ "lowbatt" \in tickLog
  /\ isDisplayOn
  /\ eventID = GES_CNTRCLOCKWISE

\* C3: a tick goes to the restart exactly when its power check finds the
\* LOWBATT state with the averaged voltage above the midpoint; the restart
\* comes after the delay(1000), is followed by nothing but the boot, and
\* between the power check and the restart no step changes the screen id,
\* the screen instance, the rotation or the display.
C3_Restart ==
  /\ [](/\ (pc \in {"restart_delay", "restart", "halted"}) =>
             (currentScreenID = LOWBATT_SCREEN /\ MeanAboveMidpoint)
        /\ (pc \in AfterPowerCheck) =>
             ~(currentScreenID = LOWBATT_SCREEN /\ MeanAboveMidpoint)
        /\ (pc \in {"restart", "halted"}) => ("delay1000" \in tickLog))
  /\ [][/\ (pc \in {"restart_delay", "restart"}) => UNCHANGED <<nav, isDisplayOn>>
        /\ (pc' = "halted") => (pc \in {"restart", "halted"})
        /\ (pc = "halted") => (pc' \in {"halted", "idle"})]_vars

\* C3 witness: the restart was requested
C3_Witness == pc = "halted" /\ "delay1000" \in tickLog

\* C4: never more than one Screen object is live or activated; a screen is
\* constructed only when none is live and none is activated; between two
\* ticks and at the end of a tick exactly one is live and activated.
C4_OneScreen ==
  /\ liveScreens \in {0, 1}
  /\ activeScreens \in {0, 1}
  /\ activeScreens <= liveScreens
  /\ (pc \in {"lowbatt_create", "setup_create", "swipe_create"}) =>
       (liveScreens = 0 /\ activeScreens = 0)
  /\ (pc \in {"idle", "end"}) => (liveScreens = 1 /\ activeScreens = 1)

\* C4 witness: a swipe has deleted the outgoing screen and is about to
\* construct the incoming one
C4_Witness == pc = "swipe_create" /\ liveScreens = 0

\* C5: an interrupt that arrives while the latch is set changes neither the
\* latch, nor its timestamp, nor the force request; a set latch stands for
\* one or more interrupts, and clearing it leaves nothing pending, with one
\* event decoded or (the spurious event) none.
C5_OnePending ==
  /\ [](eventFlag => irqs >= 1)
  /\ [][/\ (irqs' > irqs /\ eventFlag) =>
             UNCHANGED <<eventFlag, sinceEventTime, forceRequested>>
        /\ (eventFlag /\ ~eventFlag' /\ pc # "halted") =>
             (irqs' = 0 /\ pc' \in {"dispatch", "render"})]_vars

\* C5 witness: two interrupts were raised and one event is pending, the
\* second one without a force request
C5_Witness == eventFlag /\ irqs >= 2 /\ ~forceRequested

\* C6: an event whose interrupt was raised less than 1000 ms after the
\* interrupt of an honored event is never decoded.
C6_Debounce ==
  [][~(pc = "event" /\ pc' = "dispatch" /\ eventFlag /\ inDebounce)]_vars

\* C7: the event check of a tick that finds the latch set leaves it clear,
\* whether or not the debounce lets the event through, so that with no new
\* interrupt the latch is clear when the tick ends.
C7_LatchClears ==
  [][(pc = "event" /\ pc' # "event" /\ eventFlag) => ~eventFlag']_vars

\* C8: when an honored event is processed with the display off, whatever the
\* gesture, the display goes on and the event processing is over: the screen
\* id, the screen instance and the rotation are unchanged by it and by the
\* rest of the tick, and onUserEvent is not called.
C8_WakeOnly ==
  [][/\ (pc = "dispatch" /\ pc' # "dispatch" /\ ~isDisplayOn) =>
          /\ isDisplayOn'
          /\ pc' = "render"
          /\ UNCHANGED nav
          /\ "onUserEvent" \notin tickLog'
     /\ ("wake" \in tickLog) =>
          (UNCHANGED nav /\ "onUserEvent" \notin tickLog')]_vars

\* C8 witness: an honored event has turned the display on
C8_Witness == pc = "render" /\ "wake" \in tickLog /\ isDisplayOn

\* the screens of the swipe cycle
SwipeCycle == 1 .. (ScreenCount - 1)

\* the next screen of the cycle, by modular arithmetic
CycleStep(evt, c) ==
  IF evt = GES_RIGHT THEN (c % (ScreenCount - 1)) + 1
  ELSE IF evt = GES_LEFT THEN ((c + ScreenCount - 3) % (ScreenCount - 1)) + 1
  ELSE c

\* C9: on a screen of the cycle handleSwipe is the step of the cycle for left
\* and right (with the wraparound) and the identity for any other event;
\* with 5 screens [right, right, left] from 1 ends at 2; a swipe of the state
\* machine changes the screen id to that step, stays in the cycle, and
\* constructs the next screen only after the prior one is destroyed; an
\* unclaimed event that is no swipe, setup or rotation leaves the id.
C9_SwipeCycle ==
  /\ \A c \in SwipeCycle : \A e \in RawCodes :
       handleSwipe(e, c) = CycleStep(e, c) /\ handleSwipe(e, c) \in SwipeCycle
  /\ (ScreenCount = 5) =>
       handleSwipe(GES_LEFT, handleSwipe(GES_RIGHT, handleSwipe(GES_RIGHT, 1))) = 2
  /\ []((pc = "swipe_create") => (liveScreens = 0 /\ activeScreens = 0))
  /\ [][/\ (pc = "swipe_activate" /\ pc' = "render" /\ currentScreenID \in SwipeCycle) =>
             /\ currentScreenID' = CycleStep(eventID, currentScreenID)
             /\ currentScreenID' \in SwipeCycle
             /\ eventID \in {GES_LEFT, GES_RIGHT}
        /\ (pc = "transition" /\ pc' = "render") => UNCHANGED nav]_vars

\* C9 witness: a right swipe on the last screen of the cycle has destroyed it
\* and constructed the next one
C9_Witness ==
  /\ pc = "swipe_activate"
  /\ currentScreenID = ScreenCount - 1
  /\ eventID = GES_RIGHT
  /\ liveScreens = 1

\* the positions of service() in a setup, rotation or swipe transition
TransitionSteps ==
  {"transition", "setup_deactivate", "setup_delete", "setup_create",
   "setup_activate", "rotate_deactivate", "rotate_activate",
   "swipe_deactivate", "swipe_delete", "swipe_create", "swipe_activate"}

\* the positions of service() in the forward rule
ForwardSteps == {"forward_delay", "forward_check"}

\* once the screen has claimed the event, nothing changes
ClaimedIsFinal ==
  /\ ("claimed" \in tickLog' /\ "claimed" \notin tickLog) =>
       (pc = "dispatch" /\ pc' = "render" /\ UNCHANGED <<nav, isDisplayOn>>)
  /\ ("claimed" \in tickLog) => UNCHANGED <<nav, isDisplayOn>>

\* C10 as specified: every honored event processed with the display on outside
\* LOWBATT, forward included, is passed to onUserEvent before any rule acts,
\* and a claimed event changes nothing.
C10_Original ==
  /\ []((pc \in TransitionSteps \cup ForwardSteps) => ("onUserEvent" \in tickLog))
  /\ [][/\ (/\ pc = "dispatch" /\ pc' # "dispatch"
            /\ isDisplayOn /\ currentScreenID # LOWBATT_SCREEN
            /\ eventID # GES_NONE) => ("onUserEvent" \in tickLog')
        /\ ClaimedIsFinal]_vars

\* C10, amended: every honored event other than forward processed with the
\* display on outside LOWBATT is passed to onUserEvent before the setup,
\* rotation and swipe rules, which act only on an event the screen did not
\* claim; a claimed event changes neither the display, nor the screen id, the
\* screen instance or the rotation.  A forward event is not passed to
\* onUserEvent: the display is turned off first.
C10_HandlerFirst ==
  /\ [](/\ (pc \in TransitionSteps) =>
             ("onUserEvent" \in tickLog /\ "claimed" \notin tickLog)
        /\ (pc \in ForwardSteps) => ("onUserEvent" \notin tickLog))
  /\ [][/\ (/\ pc = "dispatch" /\ pc' # "dispatch"
            /\ isDisplayOn /\ currentScreenID # LOWBATT_SCREEN
            /\ eventID \notin {GES_NONE, GES_FORWARD}) => ("onUserEvent" \in tickLog')
        /\ (/\ pc = "dispatch" /\ pc' # "dispatch"
            /\ isDisplayOn /\ currentScreenID # LOWBATT_SCREEN
            /\ eventID = GES_FORWARD) => (~isDisplayOn' /\ pc' = "forward_delay")
        /\ ClaimedIsFinal]_vars

\* C10 witness: the screen has claimed an event
C10_Witness == pc = "render" /\ "claimed" \in tickLog /\ isDisplayOn

\* C11: in LOWBATT with the display on, an honored forward event turns the
\* display off; every other honored event changes neither the display nor
\* the screen id, the screen instance or the rotation, and is not passed to
\* onUserEvent.
C11_LowbattForward ==
  [][(/\ pc = "dispatch" /\ pc' # "dispatch"
      /\ isDisplayOn /\ currentScreenID = LOWBATT_SCREEN) =>
       IF eventID = GES_FORWARD
         THEN ~isDisplayOn' /\ UNCHANGED nav
         ELSE /\ UNCHANGED <<nav, isDisplayOn>>
              /\ pc' = "render"
              /\ "onUserEvent" \notin tickLog']_vars

\* C12: an honored forward event processed with the display on outside
\* LOWBATT turns the display off; an interrupt raised during the 500 ms that
\* follow only sets the latch, and the check after the delay cancels the
\* gesture and clears the latch, so that no interrupt is pending any more and
\* the display is still off and the screen unchanged when the event
\* processing ends.
C12_SpuriousSwallowed ==
  /\ []((pc \in ForwardSteps \/ "spurious" \in tickLog) => ~isDisplayOn)
  /\ [][/\ (/\ pc = "dispatch" /\ pc' # "dispatch"
            /\ isDisplayOn /\ currentScreenID # LOWBATT_SCREEN
            /\ eventID = GES_FORWARD) =>
              (~isDisplayOn' /\ pc' = "forward_delay" /\ UNCHANGED nav)
        /\ (pc \in ForwardSteps /\ pc' = pc) => UNCHANGED <<nav, isDisplayOn>>
        /\ (pc = "forward_check" /\ pc' # "forward_check") =>
              /\ ~eventFlag' /\ irqs' = 0
              /\ pc' = "render"
              /\ UNCHANGED <<nav, isDisplayOn>>
              /\ eventFlag <=> ("spurious" \in tickLog')]_vars

\* C12 witness: an interrupt raised during the delay was swallowed
C12_Witness ==
  pc = "render" /\ "spurious" \in tickLog /\ ~eventFlag /\ ~isDisplayOn

\* C13: the screen id becomes SETUP_SCREEN only at boot or in the setup
\* transition of an honored counter-clockwise event that the screen did not
\* claim, with the display on; it becomes LOWBATT_SCREEN only in the forced
\* transition of the low voltage check; a left or right swipe from any screen
\* the program can be on, SETUP included, gives an id in 1..K-1, which is
\* neither sentinel, and every swipe of the state machine lands there.
C13_Sentinels ==
  /\ \A c \in StartScreens : \A e \in {GES_LEFT, GES_RIGHT} :
       handleSwipe(e, c) \in SwipeCycle
  /\ SETUP_SCREEN \notin SwipeCycle /\ LOWBATT_SCREEN \notin SwipeCycle
  /\ [](pc \in {"swipe_deactivate", "swipe_delete", "swipe_create", "swipe_activate"} =>
          /\ currentScreenID \in StartScreens
          /\ handleSwipe(eventID, currentScreenID) \in SwipeCycle)
  /\ [][/\ (currentScreenID' = SETUP_SCREEN /\ currentScreenID # SETUP_SCREEN) =>
             \/ pc = "halted"
             \/ /\ pc = "setup_create"
                /\ eventID = GES_CNTRCLOCKWISE
                /\ isDisplayOn
                /\ currentScreenID # LOWBATT_SCREEN
                /\ "onUserEvent" \in tickLog /\ "claimed" \notin tickLog
        /\ (currentScreenID' = LOWBATT_SCREEN /\ currentScreenID # LOWBATT_SCREEN) =>
             (pc = "lowbatt_create" /\ VoltLow(avgVolt))
        /\ (pc = "swipe_activate" /\ pc' # "swipe_activate") =>
             currentScreenID' \in SwipeCycle]_vars

\* C13 witness: a left swipe on the setup screen has constructed the next
\* screen
C13_Witness ==
  /\ pc = "swipe_activate"
  /\ currentScreenID = SETUP_SCREEN
  /\ eventID = GES_LEFT
  /\ liveScreens = 1

\* the idle time after which the display goes off
DoubledThreshold ==
  IF HighCharge(avgSOC) THEN 2 * BACKLIGHT_TIMEOUT ELSE BACKLIGHT_TIMEOUT

Directions == {GES_UP, GES_DOWN, GES_LEFT, GES_RIGHT}

\* the opposite direction
Opposite(d) ==
  CASE d = GES_UP -> GES_DOWN
    [] d = GES_DOWN -> GES_UP
    [] d = GES_LEFT -> GES_RIGHT
    [] d = GES_RIGHT -> GES_LEFT
    [] OTHER -> d

\* the other of the two rotations
OtherRotation(r) == IF r = 0 THEN 2 ELSE 0

C16_OppositeRemap ==
  \A d \in Directions :
    /\ getUserEvent(d, currentScreenRotation) \in Directions
    /\ getUserEvent(d, OtherRotation(currentScreenRotation)) =
         Opposite(getUserEvent(d, currentScreenRotation))
    /\ getUserEvent(d, 2) = Opposite(getUserEvent(d, 0))

\* C16 witness: a direction was decoded at rotation 0 with the display on
C16_Witness ==
  /\ pc = "dispatch"
  /\ currentScreenRotation = 0
  /\ eventID = GES_DOWN
  /\ lastHonored /\ isDisplayOn

\* the gestures the decode names
GestureSet ==
  {GES_UP, GES_DOWN, GES_LEFT, GES_RIGHT, GES_FORWARD, GES_BACKWARD,
   GES_CLOCKWISE, GES_CNTRCLOCKWISE, GES_WAVE}

\* C17: the decode leaves forward, backward, clockwise, counter-clockwise and
\* wave as they are at the rotation the screen has, and an event that was
\* passed to onUserEvent and goes on to the setup, rotation and swipe rules
\* is a gesture of the gesture set: a raw code outside the set was decoded
\* as none and never gets there.
C17_UnlistedIsNone ==
  /\ \A g \in {GES_FORWARD, GES_BACKWARD, GES_CLOCKWISE, GES_CNTRCLOCKWISE, GES_WAVE} :
       getUserEvent(g, currentScreenRotation) = g
  /\ (pc = "transition") => (eventID \in GestureSet)

\* C18: every value in the state of charge averaging window, and so their
\* mean, which getSoC() returns, is between 0 and 100.
C18_SoCClamped ==
  /\ \A i \in 1 .. Len(avgSOC) : avgSOC[i] >= 0 /\ avgSOC[i] <= 100
  /\ Len(avgSOC) > 0 =>
       (SumSeq(avgSOC) >= 0 /\ SumSeq(avgSOC) <= 100 * Len(avgSOC))

\* the positions of service() in the rotation
RotationSteps == {"rotate_deactivate", "rotate_activate"}

\* C19: the rotation is 0 or 2; between boot and restart it changes only in
\* the step of an honored clockwise event that the screen did not claim, with
\* the display on outside LOWBATT, and there it toggles; the tick then
\* deactivates the screen and reactivates the same instance with the same id
\* and period, and resets its last update time; two toggles give the rotation
\* back.
C19_Rotation ==
  /\ [](/\ currentScreenRotation \in {0, 2}
        /\ ToggleRotation(currentScreenRotation) = OtherRotation(currentScreenRotation)
        /\ ToggleRotation(ToggleRotation(currentScreenRotation)) = currentScreenRotation
        /\ (pc \in RotationSteps) =>
             /\ liveScreens = 1
             /\ isDisplayOn /\ currentScreenID # LOWBATT_SCREEN
             /\ eventID = GES_CLOCKWISE
             /\ "onUserEvent" \in tickLog /\ "claimed" \notin tickLog)
  /\ [][/\ (currentScreenRotation' # currentScreenRotation /\ pc # "halted") =>
             /\ pc = "transition" /\ pc' = "rotate_deactivate"
             /\ eventID = GES_CLOCKWISE
             /\ isDisplayOn /\ currentScreenID # LOWBATT_SCREEN
             /\ "onUserEvent" \in tickLog /\ "claimed" \notin tickLog
        /\ (pc = "transition" /\ pc' # "transition" /\ eventID = GES_CLOCKWISE) =>
             /\ currentScreenRotation' = OtherRotation(currentScreenRotation)
             /\ pc' = "rotate_deactivate"
        /\ (pc = "rotate_deactivate" /\ pc' # "rotate_deactivate") =>
             /\ activeScreens = 1 /\ activeScreens' = 0
             /\ pc' = "rotate_activate"
             /\ UNCHANGED <<currentScreenID, liveScreens, currentScreenRotation, period>>
        /\ (pc = "rotate_activate" /\ pc' # "rotate_activate") =>
             /\ activeScreens' = 1
             /\ "lastUpdateReset" \in tickLog'
             /\ UNCHANGED <<currentScreenID, liveScreens, currentScreenRotation, period>>]_vars

\* C19 witness: a clockwise event has brought the rotation back to 0 and the
\* screen was reactivated
C19_Witness ==
  /\ pc = "render"
  /\ "lastUpdateReset" \in tickLog
  /\ currentScreenRotation = 0
  /\ liveScreens = 1 /\ activeScreens = 1

\* the positions of service() between the assignment of the new screen id
\* and the setPeriod() of the new screen
BeforeSetPeriod == {"lowbatt_activate", "setup_activate"}

\* C20: the period given to the scheduler is the refresh period of the
\* current screen after setup() and at the start and the end of every tick,
\* and at every position of service() but between the assignment of a new
\* screen id and the setPeriod() that follows it; the period changes only in
\* the activation step of a transition that replaces the screen (LOWBATT
\* entry, SETUP entry, swipe) or at boot, to the period of the new screen.
C20_Period ==
  /\ []((pc \notin BeforeSetPeriod) => (period = currentScreenID))
  /\ [][/\ (period' # period) =>
             /\ pc \in {"lowbatt_activate", "setup_activate", "swipe_activate", "halted"}
             /\ period' = currentScreenID'
        /\ (pc \in {"lowbatt_activate", "setup_activate", "swipe_activate"} /\ pc' # pc) =>
             period' = currentScreenID']_vars

\* C20 witness: the tick that forced the LOWBATT screen ends with its period
C20_Witness ==
  /\ pc = "end"
  /\ "lowbatt" \in tickLog
  /\ currentScreenID = LOWBATT_SCREEN
  /\ period = LOWBATT_SCREEN

\* the refresh condition of a tick, read where the refresh is decided
UpdateCondition ==
  /\ isDisplayOn \/ RefreshWithScreenOff(currentScreenID)
  /\ sinceLastUpdate >= RefreshPeriod(currentScreenID) - 50

\* C21: a tick calls update() at most once, and only in its refresh step;
\* it calls it exactly when the display is on or the screen is refreshed
\* with the display off, and the last update is at least the refresh period
\* less 50 ms old; the call stamps lastUpdate with the current time, and the
\* status bar is drawn with it exactly when the screen is not full-screen;
\* with the display off and a screen that is not refreshed then, no update.
C21_RenderGating ==
  /\ []((pc # "end") => ({"update", "drawBar"} \cap tickLog = {}))
  /\ [][/\ ("update" \in tickLog' /\ "update" \notin tickLog) => pc = "render"
        /\ (pc = "render" /\ pc' # pc) =>
             /\ "update" \in tickLog' <=> UpdateCondition
             /\ "update" \in tickLog' =>
                  /\ sinceLastUpdate' = 0
                  /\ "drawBar" \in tickLog' <=> ~IsFullScreen(currentScreenID)
             /\ "update" \notin tickLog' =>
                  /\ sinceLastUpdate' = sinceLastUpdate
                  /\ "drawBar" \notin tickLog'
             /\ (~isDisplayOn /\ ~RefreshWithScreenOff(currentScreenID)) =>
                  "update" \notin tickLog'
             /\ currentScreenID' = currentScreenID
             /\ isDisplayOn' = isDisplayOn]_vars

\* C21 witness: a tick refreshed a screen, bar included, with the display off
C21_Witness ==
  /\ pc = "end"
  /\ "update" \in tickLog
  /\ "drawBar" \in tickLog
  /\ ~isDisplayOn
  /\ RefreshWithScreenOff(currentScreenID)
  /\ sinceLastUpdate = 0

\* a tick refreshed a full-screen screen: no status bar
C21_FullScreenUpdate ==
  /\ pc = "end"
  /\ "update" \in tickLog
  /\ "drawBar" \notin tickLog

\* a tick skipped the refresh of a due screen because the display is off
C21_SkippedDisplayOff ==
  /\ pc = "end"
  /\ "update" \notin tickLog
  /\ ~isDisplayOn
  /\ sinceLastUpdate = LastUpdateCap

\* C22: one call of initGesture makes at most 3 attempts, stops at the first
\* success returning true and returns false after 3 failures; a tick that
\* starts with initSuccess false retries the initialisation, a tick that
\* starts with it true does not, and initSuccess once true stays true until
\* the restart; a failed initialisation goes on with the rest of the tick.
C22_InitRetry ==
  /\ [](attempt \in 0..3)
  /\ []((pc = "init") => ~initSuccess)
  /\ []((pc # "init") => (attempt = 0))
  /\ [][/\ (pc = "idle" /\ pc' # pc) =>
             IF initSuccess THEN pc' = "power" /\ initSuccess'
                            ELSE pc' = "init" /\ ~initSuccess'
        /\ (pc = "init" /\ pc' = pc /\ attempt' # attempt) =>
             /\ attempt < 3
             /\ attempt' = attempt + 1
             /\ ~initSuccess'
        /\ (pc = "init" /\ pc' # pc) =>
             /\ pc' = "averaging"
             /\ initSuccess' <=> attempt < 3
        /\ (pc = "averaging" /\ pc' # pc) => pc' = "power"
        /\ (initSuccess' # initSuccess) => pc \in {"init", "halted"}]_vars

\* C22 witness: a tick whose initialisation failed three times went on to
\* average the battery and to refresh the screen
C22_Witness ==
  /\ pc = "end"
  /\ ~initSuccess
  /\ sinceBatteryAveraging = 0
  /\ "update" \in tickLog

\* the third attempt of a call of initGesture is about to be made
C22_ThirdAttempt == pc = "init" /\ attempt = 2 /\ ENABLED InitAttempt

\* C23: with the UI task dispatched again and again and time advancing, a
\* set latch is eventually clear again (the latch is clear infinitely often,
\* which says the same as eventFlag ~> ~eventFlag); the latch is set by the
\* interrupt handler only, and cleared by the task only: when the event check
\* honors it, or when the check after a forward gesture cancels it as
\* spurious (the restart ends the program and starts it afresh).
C23_NoStuckLatch ==
  /\ []<>(~eventFlag)
  /\ [][/\ (~eventFlag /\ eventFlag') =>
             /\ pc' = pc
             /\ irqs' = irqs + 1
        /\ (eventFlag /\ ~eventFlag') =>
             \/ pc = "event" /\ pc' = "dispatch" /\ sinceEventProcessing' = 0
             \/ pc = "forward_check" /\ pc' = "render"
             \/ pc = "halted"]_vars

\* C23 witness: the task cleared a latch that was set during the debounce
\* second, which it could not honor before that second was over
C23_Witness ==
  /\ pc = "dispatch"
  /\ ~eventFlag
  /\ lastHonored
  /\ inDebounce

\* the latch is still set after a tick that did not honor it
C23_StillLatched == pc = "end" /\ eventFlag /\ sinceEventProcessing <= 1000

====
